---- MODULE Spec2Model ----
(***************************************************************************)
(* ManagedVec (basic_types/managed_vec.rs): a vector of optional cells     *)
(* with recycling of empty cells, indexed by ManagedVecUSize = u8.         *)
(*                                                                         *)
(* Rust indices are 0-based; cell i of `data` is data[i + 1] here.         *)
(* Option<X> is modelled as a sequence: None is <<>>, Some(x) is <<x>>.    *)
(***************************************************************************)
EXTENDS Integers, Sequences, FiniteSets, TLC

\* Largest value of ManagedVecUSize (u8).
ManagedVecUSizeMax == 255

\* Bounds of the exploration.
\* Cells 0..MaxSlots-1 are pushed and removed one at a time with any value.
MaxSlots == 3
\* Length of the caller's push loop (for j in 0..FillCount), run on a new vector.
FillCount == 255
\* Values carried by the elements pushed one at a time: 1..MaxValue.
MaxValue == 2

VARIABLES
    data,            \* ManagedVec::data: Vec<Option<T>>
    some_len,        \* ManagedVec::some_len: u8
    overflow_checks, \* build profile: TRUE = overflow checks on (debug), FALSE = wrapping (release)
    status,          \* "running", "panicked" (a call panicked), "consumed" (moved by into_iter)
    j,               \* the caller's push loop: the next j of `for j in 0..FillCount`
    call             \* the last call on the registry: [op, arg, ret]

vars == <<data, some_len, overflow_checks, status, j, call>>

\* UuidST (shared_types/uuid.rs). A Uuid held by a stamp is modelled by the
\* 128-bit number its bytes spell, most significant byte first (Uuid's Ord is
\* the order of these numbers).
\* Instance ids (method_uuid, UUID v4) are 0..MaxInstance and sequence ids
\* (data_uuid, UUID v7) are 0..MaxSeq.
MaxInstance == 2
MaxSeq == 3

VARIABLES
    method_uuid,     \* UuidST::method_uuid
    data_uuid,       \* UuidST::data_uuid
    clock,           \* the last id the UUID v7 source produced
    minted,          \* the ids Uuid::new_v4() has produced
    ucall            \* the last call on the stamp: [op, arg, ret]

svars == <<method_uuid, data_uuid, clock, minted, ucall>>

\* The tasks of test_two_threads_uuid (shared_types/uuid.rs): each repeats
\* lock, increment(), get(), assert, with the stamp behind one tokio Mutex.
NumTasks == 2

VARIABLES
    locked_by,           \* the task holding the tokio::sync::Mutex, 0 when unlocked
    task,                \* per task: [pc, prev_data_uuid, prev_uuid_obj, seen]
    initial_method_uuid, \* the instance id read before the tasks start
    advancing            \* TRUE: every id of the UUID v7 source is greater than its last one

tvars == <<locked_by, task, initial_method_uuid, advancing>>

\* The text form of the ids (UuidST::short_uuid_string): two ids and their
\* encodings. An id is the nil Uuid changed in at most MaxEdits bytes (of both
\* ids together), each set to one of ByteValues.
MaxEdits == 2
ByteValues == {1, 128, 255}

VARIABLES
    uuid_a,          \* Uuid::as_bytes() of the first id
    uuid_b,          \* Uuid::as_bytes() of the second id
    text_a,          \* None, or Some(short_uuid_string(&uuid_a))
    text_b,          \* None, or Some(short_uuid_string(&uuid_b))
    edits            \* the number of bytes set so far

evars == <<uuid_a, uuid_b, text_a, text_b, edits>>

\* The conditional read of a polled category (spec 4.3; the traits of
\* api/def_methods.rs): one writer, which mutates the category's data and then
\* increments its stamp, and a poller. The data is the number of mutations
\* made, at most MaxMutations.
MaxMutations == 1

VARIABLES
    payload,         \* the category's data
    writer,          \* "idle", or "mutated": the increment of a mutation is still to come
    poller           \* the poller and its request in the handler: [pc, held, req, cur, at_load, resp, scen]

pvars == <<payload, writer, poller>>

\* What a stamp has held, for the claims about its history; the history is
\* followed over at most MaxIncrements calls of increment().
MaxIncrements == 3

VARIABLES
    issued,          \* the pairs (method_uuid, data_uuid) the stamp has held so far
    completed        \* the pair the stamp held when its last new / set / increment returned

hvars == <<issued, completed>>

\* The registry behind a reader-writer lock (spec 5): one writer task, which
\* calls push and remove, and NumReaders reader tasks.
NumReaders == 1

VARIABLES
    rwlock,          \* [writer |-> the write guard is held, readers |-> the read guards held]
    wpc              \* the writer inside push or remove: [at, arg, taken]

lvars == <<rwlock, wpc>>

\* Every variable of the module; the variables outside the registry.
allvars == <<vars, svars, tvars, evars, pvars, hvars, lvars>>
NonRegistry == <<svars, tvars, evars, pvars, hvars, lvars>>

\* No history is kept in the other specifications.
HistoryUnused == issued = {} /\ completed = <<>>

\* The registry has no lock in the other specifications.
LockUnused == rwlock = <<>> /\ wpc = <<>>

\* No category is polled in the other specifications.
PollUnused == payload = 0 /\ writer = "idle" /\ poller = <<>>

\* The tasks are not part of the other specifications.
ThreadsUnused ==
    /\ locked_by = 0 /\ task = <<>> /\ initial_method_uuid = 0
    /\ advancing = FALSE

\* The two ids are not part of the other specifications.
EncodeUnused ==
    /\ uuid_a = <<>> /\ uuid_b = <<>> /\ text_a = <<>> /\ text_b = <<>>
    /\ edits = 0

\* The stamp is not part of the registry's specification.
StampUnused ==
    /\ method_uuid = 0 /\ data_uuid = 0 /\ clock = 0 /\ minted = {}
    /\ ucall = [op |-> "none"]

\* The registry is not part of the stamp's specifications.
RegistryUnused ==
    /\ data = <<>> /\ some_len = 0 /\ overflow_checks = FALSE
    /\ status = "running" /\ j = 0
    /\ call = [op |-> "none"]

----------------------------------------------------------------------------
\* Option<X>
None == <<>>
Some(x) == <<x>>
IsSome(o) == o # None
Unwrap(o) == o[1]

\* The test's element type TS { idx: Option<u8>, _value: u8 } and TS::new.
NewTS(value) == [idx |-> None, value |-> value]

\* ManagedElement::set_idx / idx
SetIdx(elem, index) == [elem EXCEPT !.idx = index]
Idx(elem) == elem.idx

\* usize -> u8 conversion (index.try_into()): fails above u8::MAX.
TryIntoU8(n) == IF n <= ManagedVecUSizeMax THEN Some(n) ELSE None

\* self.data.get(i): the cell at 0-based i, absent when out of range.
VecGet(d, i) == IF i < Len(d) THEN Some(d[i + 1]) ELSE None

\* u8 arithmetic of `some_len += 1` / `some_len -= 1`: with overflow checks the
\* operation panics when the result leaves 0..u8::MAX, without them it wraps.
AddOne(n, checks) ==
    [val |-> (n + 1) % (ManagedVecUSizeMax + 1),
     panic |-> checks /\ n + 1 > ManagedVecUSizeMax]
SubOne(n, checks) ==
    [val |-> (n - 1) % (ManagedVecUSizeMax + 1),
     panic |-> checks /\ n - 1 < 0]

\* The outcome of a call: the registry afterwards, the value returned, and
\* whether the call panicked (then `ret` is not delivered).
Outcome(d, sl, ret, panic) == [data |-> d, some_len |-> sl, ret |-> ret, panic |-> panic]

----------------------------------------------------------------------------
\* push

\* Variant of FindFree: the scan runs from the end and finds the last free cell.
FindFreeLast(d) ==
    IF \E index \in 0..(Len(d) - 1) : d[index + 1] = None
    THEN Some(CHOOSE index \in 0..(Len(d) - 1) :
                  /\ d[index + 1] = None
                  /\ \A after \in (index + 1)..(Len(d) - 1) : d[after + 1] # None)
    ELSE None

\* for (index, cell) in self.data.iter_mut().enumerate() { if cell.is_none() ... }
\* the first index, in enumeration order, whose cell is None, if any.
FindFree(d) ==
    IF \E index \in 0..(Len(d) - 1) : d[index + 1] = None
    THEN Some(CHOOSE index \in 0..(Len(d) - 1) :
                  /\ d[index + 1] = None
                  /\ \A before \in 0..(index - 1) : d[before + 1] # None)
    ELSE None

\* Variant of PushCell: the element is stored without set_idx.
PushCellNoIdx(value, managed_idx) == Some(value)

\* value.set_idx(Some(managed_idx)); the cell stored is Some(value).
PushCell(value, managed_idx) == Some(SetIdx(value, Some(managed_idx)))

\* The new some_len of push.
PushLen(sl, checks) == AddOne(sl, checks)

PushOp(d, sl, checks, value) ==
    LET inc == PushLen(sl, checks)
        free == FindFree(d)
    IN  IF inc.panic THEN Outcome(d, sl, None, TRUE)
        ELSE IF IsSome(free) THEN
            LET managed_idx == TryIntoU8(Unwrap(free))
            IN  IF managed_idx = None THEN Outcome(d, inc.val, None, TRUE)
                ELSE Outcome([d EXCEPT ![Unwrap(free) + 1] = PushCell(value, Unwrap(managed_idx))],
                             inc.val, managed_idx, FALSE)
        ELSE
            LET managed_idx == TryIntoU8(Len(d))
            IN  IF managed_idx = None THEN Outcome(d, inc.val, None, TRUE)
                ELSE Outcome(Append(d, PushCell(value, Unwrap(managed_idx))),
                             inc.val, managed_idx, FALSE)

----------------------------------------------------------------------------
\* get / get_mut

\* Variant of GetOp: the lookup is off by one.
GetOpNext(d, index) ==
    LET cell == VecGet(d, index + 1)
    IN  IF cell = None THEN None ELSE Unwrap(cell)

GetOp(d, index) ==
    LET cell == VecGet(d, index)
    IN  IF cell = None THEN None ELSE Unwrap(cell)

GetMutOp(d, index) ==
    LET cell == VecGet(d, index)
    IN  IF cell = None THEN None ELSE Unwrap(cell)

----------------------------------------------------------------------------
\* remove

\* Variant of TrimTail: nothing is popped.
NoTrim(d) == d

\* while let Some(None) = self.data.last() { self.data.pop(); }
\* pops every cell after the last occupied one.
TrimTail(d) ==
    SubSeq(d, 1, CHOOSE n \in 0..Len(d) :
                     /\ n = 0 \/ d[n] # None
                     /\ \A after \in (n + 1)..Len(d) : d[after] = None)

\* Variant of TakeCell: Vec::remove(index), which shifts the later cells down.
TakeCellShift(d, index) == SubSeq(d, 1, index) \o SubSeq(d, index + 2, Len(d))

\* self.data.get_mut(usize_index).and_then(|v| v.take()): the cell's content
\* is moved out and the cell left None.
TakeCell(d, index) == [d EXCEPT ![index + 1] = None]

\* Variant of RemoveLen: some_len is decremented whatever was taken.
RemoveLenAlways(sl, checks, ret_value) == SubOne(sl, checks)

\* The new some_len of remove, given what was taken.
RemoveLen(sl, checks, ret_value) ==
    IF IsSome(ret_value) THEN SubOne(sl, checks) ELSE [val |-> sl, panic |-> FALSE]

RemoveOp(d, sl, checks, index) ==
    IF VecGet(d, index) = None THEN Outcome(d, sl, None, FALSE)
    ELSE
        LET ret_value == d[index + 1]
            trimmed == TrimTail(TakeCell(d, index))
            dec == RemoveLen(sl, checks, ret_value)
        IN  IF dec.panic THEN Outcome(trimmed, sl, None, TRUE)
            ELSE IF IsSome(ret_value)
            THEN Outcome(trimmed, dec.val, Some(SetIdx(Unwrap(ret_value), None)), FALSE)
            ELSE Outcome(trimmed, dec.val, None, FALSE)

----------------------------------------------------------------------------
\* len / is_empty
LenOp(sl) == sl
IsEmptyOp(sl) == sl = 0

----------------------------------------------------------------------------
\* into_iter / iter / iter_mut:
\* data.iter().enumerate().filter_map(|(index, cell)| cell.map(|value| (index.try_into().unwrap(), value)))
\* The items yielded, in order; `panic` when the conversion of an occupied
\* cell's index fails (the unwrap), which ends the iteration.
Enumerate(d) == [k \in 1..Len(d) |-> <<k - 1, d[k]>>]
IsOccupied(pair) == IsSome(pair[2])
EnumerateFilterMap(d) ==
    LET occupied == SelectSeq(Enumerate(d), IsOccupied)
        converts(pair) == IsSome(TryIntoU8(pair[1]))
        yielded == SelectSeq(occupied, converts)
    IN  [items |-> [k \in 1..Len(yielded) |->
                        <<Unwrap(TryIntoU8(yielded[k][1])), Unwrap(yielded[k][2])>>],
         panic |-> Len(yielded) # Len(occupied)]

IterOp(d) == EnumerateFilterMap(d)
IterMutOp(d) == EnumerateFilterMap(d)
IntoIterOp(d) == EnumerateFilterMap(d)

----------------------------------------------------------------------------
\* Inputs of the exploration.
Values == 1..MaxValue
\* Indices removed: the low cells and the cells from FillCount up.
\* Indices looked up: two low cells, a middle cell and the last index of u8.
Indices == (0..(MaxSlots - 1)) \cup (FillCount..ManagedVecUSizeMax)
LookupIndices == {0, 1, MaxSlots, ManagedVecUSizeMax}

\* ManagedVec::new()
Init ==
    /\ data = <<>>
    /\ some_len = 0
    /\ overflow_checks \in BOOLEAN
    /\ status = "running"
    /\ j = 0
    /\ call = [op |-> "new", arg |-> 0, ret |-> None]

\* Applies the outcome `r` of the call `op(arg)`.
Apply(op, arg, r) ==
    /\ data' = r.data
    /\ some_len' = r.some_len
    /\ status' = IF r.panic THEN "panicked" ELSE "running"
    /\ call' = [op |-> op, arg |-> arg, ret |-> r.ret]
    /\ UNCHANGED overflow_checks

\* The caller is not inside its push loop.
Idle == status = "running" /\ j \in {0, FillCount}

\* The cell a push would fill.
PushTarget(d) == IF IsSome(FindFree(d)) THEN Unwrap(FindFree(d)) ELSE Len(d)

Push(v) ==
    /\ Idle
    /\ UNCHANGED j
    /\ PushTarget(data) < MaxSlots \/ Len(data) >= FillCount
    /\ Apply("push", v, PushOp(data, some_len, overflow_checks, NewTS(v)))

\* One turn of the caller's loop on a new vector:
\* for j in 0..FillCount { v1.push(TS::new(j)); }
PushLoop ==
    /\ status = "running"
    /\ j < FillCount
    /\ j = 0 => data = <<>> /\ some_len = 0
    /\ j' = j + 1
    /\ Apply("push", j, PushOp(data, some_len, overflow_checks, NewTS(j)))

Remove(i) ==
    /\ Idle
    /\ UNCHANGED j
    /\ Apply("remove", i, RemoveOp(data, some_len, overflow_checks, i))

Get(i) ==
    /\ Idle
    /\ UNCHANGED j
    /\ call' = [op |-> "get", arg |-> i, ret |-> GetOp(data, i)]
    /\ UNCHANGED <<data, some_len, overflow_checks, status>>

GetMut(i) ==
    /\ Idle
    /\ UNCHANGED j
    /\ call' = [op |-> "get_mut", arg |-> i, ret |-> GetMutOp(data, i)]
    /\ UNCHANGED <<data, some_len, overflow_checks, status>>

Iter ==
    /\ Idle
    /\ UNCHANGED j
    /\ call' = [op |-> "iter", arg |-> 0, ret |-> IterOp(data).items]
    /\ status' = IF IterOp(data).panic THEN "panicked" ELSE "running"
    /\ UNCHANGED <<data, some_len, overflow_checks>>

IterMut ==
    /\ Idle
    /\ UNCHANGED j
    /\ call' = [op |-> "iter_mut", arg |-> 0, ret |-> IterMutOp(data).items]
    /\ status' = IF IterMutOp(data).panic THEN "panicked" ELSE "running"
    /\ UNCHANGED <<data, some_len, overflow_checks>>

\* into_iter(self) takes the registry by value: no call follows it.
IntoIter ==
    /\ Idle
    /\ UNCHANGED j
    /\ call' = [op |-> "into_iter", arg |-> 0, ret |-> IntoIterOp(data).items]
    /\ status' = IF IntoIterOp(data).panic THEN "panicked" ELSE "consumed"
    /\ UNCHANGED <<data, some_len, overflow_checks>>

Next ==
    \/ \E v \in Values : Push(v) /\ UNCHANGED NonRegistry
    \/ PushLoop /\ UNCHANGED NonRegistry
    \/ \E i \in Indices : Remove(i) /\ UNCHANGED NonRegistry
    \/ \E i \in LookupIndices : Get(i) /\ UNCHANGED NonRegistry
    \/ \E i \in LookupIndices : GetMut(i) /\ UNCHANGED NonRegistry
    \/ Iter /\ UNCHANGED NonRegistry
    \/ IterMut /\ UNCHANGED NonRegistry
    \/ IntoIter /\ UNCHANGED NonRegistry

\* The registry's initial state: ManagedVec::new(), nothing else in use.
RegistryInit ==
    /\ Init /\ StampUnused /\ ThreadsUnused /\ EncodeUnused /\ PollUnused
    /\ HistoryUnused /\ LockUnused

Spec == RegistryInit /\ [][Next]_allvars

----------------------------------------------------------------------------
\* UuidST

InstanceIds == 0..MaxInstance
SeqIds == 0..MaxSeq
Stamps == [method_uuid : InstanceIds, data_uuid : SeqIds]

\* The UuidST value held in the variables.
Stamp == [method_uuid |-> method_uuid, data_uuid |-> data_uuid]

\* Uuid::new_v4(): a random id, taken to be one never produced before.
NewV4 == InstanceIds \ minted

\* uuid7::new_v7(): what the time-ordered source can produce next. It advances
\* when the id is above the last one produced; a clock moved backward gives
\* an id at or below it.
NewV7 == SeqIds

\* UuidST::get
\* Variant of UuidGet: the two ids in the other order.
UuidGetSwapped(s) == <<s.data_uuid, s.method_uuid>>

UuidGet(s) == <<s.method_uuid, s.data_uuid>>

\* UuidST::set
UuidSet(s, other) ==
    [method_uuid |-> other.method_uuid, data_uuid |-> other.data_uuid]

\* Clone (derived)
UuidClone(s) == [method_uuid |-> s.method_uuid, data_uuid |-> s.data_uuid]

\* The branch of increment taken: new_data_uuid <= self.data_uuid.
Regressed(s, new_data_uuid) == new_data_uuid <= s.data_uuid

\* Variant of UuidIncrement: the test is `<`, an equal id mints nothing.
UuidIncrementStrict(s, new_data_uuid, new_method_uuid) ==
    [method_uuid |-> IF new_data_uuid < s.data_uuid THEN new_method_uuid
                     ELSE s.method_uuid,
     data_uuid |-> new_data_uuid]

\* Variant of UuidIncrement: the test is inverted, an advancing id mints.
UuidIncrementInverted(s, new_data_uuid, new_method_uuid) ==
    [method_uuid |-> IF new_data_uuid > s.data_uuid THEN new_method_uuid
                     ELSE s.method_uuid,
     data_uuid |-> new_data_uuid]

\* Variant of UuidIncrement: the new sequence id is not stored.
UuidIncrementStale(s, new_data_uuid, new_method_uuid) ==
    [method_uuid |-> IF Regressed(s, new_data_uuid) THEN new_method_uuid
                     ELSE s.method_uuid,
     data_uuid |-> s.data_uuid]

\* UuidST::increment, given the ids its calls of new_v7 and (in the branch)
\* new_v4 return.
UuidIncrement(s, new_data_uuid, new_method_uuid) ==
    [method_uuid |-> IF Regressed(s, new_data_uuid) THEN new_method_uuid
                     ELSE s.method_uuid,
     data_uuid |-> new_data_uuid]

\* PartialOrd / Ord (derived): method_uuid is compared first, then data_uuid.
UuidLess(a, b) ==
    \/ a.method_uuid < b.method_uuid
    \/ a.method_uuid = b.method_uuid /\ a.data_uuid < b.data_uuid

\* PartialEq / Eq (derived)
UuidEq(a, b) == a.method_uuid = b.method_uuid /\ a.data_uuid = b.data_uuid

\* UuidST::new(): a new_v4 instance id and a new_v7 sequence id.
StampInit ==
    /\ method_uuid \in InstanceIds
    /\ data_uuid \in SeqIds
    /\ clock = data_uuid
    /\ minted = {method_uuid}
    /\ ucall = [op |-> "new", arg |-> None, ret |-> None]

StampStore(s) ==
    /\ method_uuid' = s.method_uuid
    /\ data_uuid' = s.data_uuid

StampGet ==
    /\ ucall' = [op |-> "get", arg |-> None, ret |-> UuidGet(Stamp)]
    /\ UNCHANGED <<method_uuid, data_uuid, clock, minted>>

StampClone ==
    /\ ucall' = [op |-> "clone", arg |-> None, ret |-> UuidClone(Stamp)]
    /\ UNCHANGED <<method_uuid, data_uuid, clock, minted>>

\* set(&other), other being a stamp made elsewhere (UuidST::new() or a clone).
StampSet(other) ==
    /\ StampStore(UuidSet(Stamp, other))
    /\ minted' = minted \cup {other.method_uuid}
    /\ ucall' = [op |-> "set", arg |-> other, ret |-> None]
    /\ UNCHANGED clock

\* increment(): new_v7 produces new_data_uuid and new_v4, when called,
\* new_method_uuid. `ret` records the instance id minted, if one was.
StampIncrement(new_data_uuid) ==
    /\ Regressed(Stamp, new_data_uuid) => NewV4 # {}
    /\ \E new_method_uuid \in (IF NewV4 # {} THEN NewV4 ELSE InstanceIds) :
         LET after == UuidIncrement(Stamp, new_data_uuid, new_method_uuid)
         IN  /\ StampStore(after)
             /\ minted' = minted \cup {after.method_uuid}
             /\ ucall' = [op |-> "increment", arg |-> new_data_uuid,
                          ret |-> IF after.method_uuid # method_uuid
                                  THEN Some(after.method_uuid) ELSE None]
    /\ clock' = new_data_uuid

\* The variables outside the stamp.
NonStamp == <<vars, tvars, evars, pvars, hvars, lvars>>

StampNext ==
    \/ StampGet /\ UNCHANGED NonStamp
    \/ StampClone /\ UNCHANGED NonStamp
    \/ \E other \in Stamps : StampSet(other) /\ UNCHANGED NonStamp
    \/ \E new_data_uuid \in NewV7 : StampIncrement(new_data_uuid) /\ UNCHANGED NonStamp

\* UuidST::new(), nothing else in use.
UuidInit ==
    /\ StampInit /\ RegistryUnused /\ ThreadsUnused /\ EncodeUnused /\ PollUnused
    /\ HistoryUnused /\ LockUnused

\* One stamp, called by its owner (no lock): get, set, increment, clone.
SpecUuid == UuidInit /\ [][StampNext]_allvars

----------------------------------------------------------------------------
\* The text form of an id: UuidST::short_uuid_string, get_method_uuid,
\* get_data_uuid. A String is the sequence of its bytes (ASCII codes).

\* Uuid::as_bytes(): [u8; 16].
UuidBytesLen == 16

\* The bytes of the id of number n, most significant first. Every n of the
\* model is below 256^4, so the bytes before the last four are 0.
AsBytes(n) ==
    [i \in 1..UuidBytesLen |->
        IF UuidBytesLen - i > 3 THEN 0
        ELSE (n \div 256^(UuidBytesLen - i)) % 256]

\* Uuid::nil()
NilBytes == [i \in 1..UuidBytesLen |-> 0]

\* Ord of [u8; 16] and of String: the lexicographic order of the bytes.
LexLess(x, y) ==
    \E k \in 1..Len(y) :
        /\ k - 1 <= Len(x)
        /\ \A i \in 1..(k - 1) : x[i] = y[i]
        /\ k <= Len(x) => x[k] < y[k]

\* Bit k of the bytes (bit 0 is the most significant bit of the first byte);
\* the bits past the end are the 0 bits that fill the last symbol.
BitAt(bytes, k) ==
    IF k >= 8 * Len(bytes) THEN 0
    ELSE (bytes[(k \div 8) + 1] \div 2^(7 - (k % 8))) % 2

\* The value of symbol i (from 0): the five bits from bit 5 * i.
Quintet(bytes, i) ==
    16 * BitAt(bytes, 5 * i) + 8 * BitAt(bytes, 5 * i + 1)
      + 4 * BitAt(bytes, 5 * i + 2) + 2 * BitAt(bytes, 5 * i + 3)
      + BitAt(bytes, 5 * i + 4)

\* The number of symbols without padding: 8 * len bits in groups of five.
EncodedLen(bytes) == (8 * Len(bytes) + 4) \div 5

\* Variant of Base32HexSymbol: the alphabet of plain base32, A-Z then 2-7.
Base32Symbol(v) == IF v < 26 THEN 65 + v ELSE 24 + v

\* The alphabet of BASE32HEX: 0-9 then A-V.
Base32HexSymbol(v) == IF v < 10 THEN 48 + v ELSE 55 + v

\* data_encoding::BASE32HEX_NOPAD.encode
Base32HexNopadEncode(bytes) ==
    [i \in 1..EncodedLen(bytes) |-> Base32HexSymbol(Quintet(bytes, i - 1))]

\* Variant of ShortUuidString: the last byte of the id is left out.
ShortUuidStringCut(bytes) ==
    Base32HexNopadEncode(SubSeq(bytes, 1, Len(bytes) - 1))

\* UuidST::short_uuid_string(&uuid), given uuid.as_bytes()
ShortUuidString(bytes) == Base32HexNopadEncode(bytes)

\* short_uuid_string of each id a stamp of the model can hold.
ShortText == [n \in InstanceIds \cup SeqIds |-> ShortUuidString(AsBytes(n))]

\* UuidST::get_method_uuid, UuidST::get_data_uuid
GetMethodUuid(s) == ShortText[s.method_uuid]
GetDataUuid(s) == ShortText[s.data_uuid]

\* Two ids, nil at first.
EncodeInit ==
    /\ uuid_a = NilBytes /\ uuid_b = NilBytes
    /\ text_a = None /\ text_b = None
    /\ edits = 0

\* One byte of the first id is set.
SetByteA(i, v) ==
    /\ text_a = None /\ edits < MaxEdits
    /\ uuid_a' = [uuid_a EXCEPT ![i] = v]
    /\ edits' = edits + 1
    /\ UNCHANGED <<uuid_b, text_a, text_b>>

\* One byte of the second id is set.
SetByteB(i, v) ==
    /\ text_b = None /\ edits < MaxEdits
    /\ uuid_b' = [uuid_b EXCEPT ![i] = v]
    /\ edits' = edits + 1
    /\ UNCHANGED <<uuid_a, text_a, text_b>>

\* short_uuid_string on each of the two ids.
EncodeBoth ==
    /\ text_a = None
    /\ text_a' = Some(ShortUuidString(uuid_a))
    /\ text_b' = Some(ShortUuidString(uuid_b))
    /\ UNCHANGED <<uuid_a, uuid_b, edits>>

NonEncode == <<vars, svars, tvars, pvars, hvars, lvars>>

EncodeNext ==
    \/ \E i \in 1..UuidBytesLen, v \in ByteValues : SetByteA(i, v) /\ UNCHANGED NonEncode
    \/ \E i \in 1..UuidBytesLen, v \in ByteValues : SetByteB(i, v) /\ UNCHANGED NonEncode
    \/ EncodeBoth /\ UNCHANGED NonEncode

EncodeStart ==
    /\ EncodeInit /\ RegistryUnused /\ StampUnused /\ ThreadsUnused /\ PollUnused
    /\ HistoryUnused /\ LockUnused

\* The encoding applied to pairs of ids.
SpecEncode == EncodeStart /\ [][EncodeNext]_allvars

----------------------------------------------------------------------------
\* test_two_threads_uuid: two tasks share the stamp through one tokio Mutex;
\* each repeats lock, increment(), get(), the three assertions, and drops the
\* guard at the end of the iteration. The loops are longer than any run the
\* sequence ids of the model allow, so no task reaches the end of its loop.

Tasks == 1..NumTasks

\* uuid7::new_v7() as the tasks call it: any id, or only ids after the last.
NextV7 == IF advancing THEN {x \in NewV7 : x > clock} ELSE NewV7

\* Lines 94-107: the stamp is made, and its fields read under the lock.
ThreadsInit ==
    /\ StampInit
    /\ advancing \in BOOLEAN
    /\ locked_by = 0
    /\ initial_method_uuid = method_uuid
    /\ task = [t \in Tasks |->
                 [pc |-> "lock", prev_data_uuid |-> data_uuid,
                  prev_uuid_obj |-> UuidClone(Stamp), seen |-> None]]

\* mt_safe_uuid.lock().await
Lock(t) ==
    /\ task[t].pc = "lock" /\ locked_by = 0
    /\ locked_by' = t
    /\ task' = [task EXCEPT ![t].pc = "increment"]
    /\ UNCHANGED <<initial_method_uuid, advancing, svars>>

\* locked_uuid.increment()
TaskIncrement(t) ==
    /\ task[t].pc = "increment" /\ locked_by = t
    /\ \E new_data_uuid \in NextV7 : StampIncrement(new_data_uuid)
    /\ task' = [task EXCEPT ![t].pc = "get"]
    /\ UNCHANGED <<locked_by, initial_method_uuid, advancing>>

\* let (method_uuid, data_uuid) = locked_uuid.get()
TaskGet(t) ==
    /\ task[t].pc = "get" /\ locked_by = t
    /\ StampGet
    /\ task' = [task EXCEPT ![t].pc = "assert", ![t].seen = UuidGet(Stamp)]
    /\ UNCHANGED <<locked_by, initial_method_uuid, advancing>>

\* The three assertions of an iteration (lines 116-118).
AssertsHold(t) ==
    /\ task[t].seen[1] = initial_method_uuid
    /\ task[t].seen[2] > task[t].prev_data_uuid
    /\ LexLess(GetDataUuid(task[t].prev_uuid_obj), GetDataUuid(Stamp))

\* The assertions hold: the locals are updated and the guard is dropped.
TaskAssert(t) ==
    /\ task[t].pc = "assert" /\ locked_by = t
    /\ AssertsHold(t)
    /\ task' = [task EXCEPT ![t].pc = "lock",
                            ![t].prev_data_uuid = task[t].seen[2],
                            ![t].prev_uuid_obj = UuidClone(Stamp),
                            ![t].seen = None]
    /\ locked_by' = 0
    /\ UNCHANGED <<initial_method_uuid, advancing, svars>>

\* An assertion fails: the test panics, which drops both futures of the
\* join! and the guard.
TaskPanic(t) ==
    /\ task[t].pc = "assert" /\ locked_by = t
    /\ ~AssertsHold(t)
    /\ task' = [u \in Tasks |-> [task[u] EXCEPT !.pc = "panicked"]]
    /\ locked_by' = 0
    /\ UNCHANGED <<initial_method_uuid, advancing, svars>>

NonThreads == <<vars, evars, pvars, hvars, lvars>>

ThreadsNext ==
    \/ \E t \in Tasks : Lock(t) /\ UNCHANGED NonThreads
    \/ \E t \in Tasks : TaskIncrement(t) /\ UNCHANGED NonThreads
    \/ \E t \in Tasks : TaskGet(t) /\ UNCHANGED NonThreads
    \/ \E t \in Tasks : TaskAssert(t) /\ UNCHANGED NonThreads
    \/ \E t \in Tasks : TaskPanic(t) /\ UNCHANGED NonThreads

ThreadsStart ==
    /\ ThreadsInit /\ RegistryUnused /\ EncodeUnused /\ PollUnused
    /\ HistoryUnused /\ LockUnused

\* The tasks of the test on one stamp.
SpecThreads == ThreadsStart /\ [][ThreadsNext]_allvars

----------------------------------------------------------------------------
\* The conditional read protocol (spec 4.3). The handlers behind the traits
\* GeneralApi::get_status and PackagesApi::get_packages_config are modelled
\* from the spec: the handler loads the stamp (UuidST::get under the stamp's
\* mutex), then decides and answers. The writer's mutation and its
\* increment() are two steps, each under its own lock (spec 5). The pollers
\* share nothing but what they read, so one poller sees every interleaving
\* with the writer that any poller can see.

\* The request fields method_uuid and data_uuid: Option<String>.
NoPrior == [method_uuid |-> None, data_uuid |-> None]

\* What the poller sends: nothing, the pair of its last response, or the
\* instance id of its last response alone.
RequestKinds == {"none", "held", "method_only"}

Request(kind) ==
    IF kind = "none" THEN NoPrior
    ELSE [method_uuid |-> Some(Unwrap(poller.held).method_uuid),
          data_uuid |-> IF kind = "held"
                        THEN Some(Unwrap(poller.held).data_uuid) ELSE None]

\* A prior stamp is supplied when both fields are.
PriorSupplied(req) == IsSome(req.method_uuid) /\ IsSome(req.data_uuid)

\* Steps 2 to 4 of the handler, cur being the pair loaded in step 1.
HandlerDecision(req, cur) ==
    IF \/ ~PriorSupplied(req)
       \/ Unwrap(req.method_uuid) # ShortText[cur[1]]
    THEN "full"
    ELSE IF Unwrap(req.data_uuid) = ShortText[cur[2]]
         THEN "unchanged"
         ELSE "full"

\* The response: the header's two strings and, when full, the data.
HandlerResponse(req, cur, full) ==
    [kind |-> HandlerDecision(req, cur),
     method_uuid |-> ShortText[cur[1]],
     data_uuid |-> ShortText[cur[2]],
     payload |-> IF HandlerDecision(req, cur) = "full" THEN Some(full) ELSE None]

\* Where the writer is: the mutations made and whether an increment is due.
WriterAt == <<payload, writer>>

\* The poller's place in the scenario of spec 8 once it gets a response:
\*   1  a poll without prior stamp, the writer idle from load to response;
\*   2  after 1, the writer has mutated and incremented, and the poller polls
\*      with the stamp of 1, the writer idle from load to response;
\*   3  after 2 (or 3), the poller polls with the stamp it got, the writer
\*      idle since that response;
\*   0  anything else.
ScenarioStep ==
    IF ~(Unwrap(poller.at_load) = WriterAt /\ writer = "idle") THEN 0
    ELSE IF poller.req = NoPrior THEN 1
    ELSE IF ~PriorSupplied(poller.req) THEN 0
    ELSE IF poller.scen = 1 /\ payload > Unwrap(poller.held).at[1] THEN 2
    ELSE IF poller.scen \in {2, 3} /\ WriterAt = Unwrap(poller.held).at THEN 3
    ELSE 0

PollInit ==
    /\ StampInit
    /\ payload = 0 /\ writer = "idle"
    /\ poller = [pc |-> "idle", held |-> None, req |-> NoPrior, cur |-> None,
                 at_load |-> None, resp |-> None, scen |-> 0]

\* The writer mutates the category's data.
Mutate ==
    /\ writer = "idle" /\ payload < MaxMutations
    /\ payload' = payload + 1
    /\ writer' = "mutated"
    /\ UNCHANGED <<poller, svars>>

\* The writer increments the stamp after its mutation.
WriterIncrement ==
    /\ writer = "mutated"
    /\ \E new_data_uuid \in NewV7 : StampIncrement(new_data_uuid)
    /\ writer' = "idle"
    /\ UNCHANGED <<payload, poller>>

\* Step 1 of the handler on a request of the poller: the stamp is loaded.
Load(kind) ==
    /\ poller.pc = "idle"
    /\ kind # "none" => poller.held # None
    /\ StampGet
    /\ poller' = [poller EXCEPT !.pc = "loaded", !.req = Request(kind),
                                !.cur = Some(UuidGet(Stamp)),
                                !.at_load = Some(WriterAt)]
    /\ UNCHANGED <<payload, writer>>

\* Steps 2 to 4: the handler answers, and the poller keeps the stamp of the
\* response with the data it now has (`stamp` is the pair the two strings
\* stand for, `at` where the writer was).
Respond ==
    /\ poller.pc = "loaded"
    /\ LET r == HandlerResponse(poller.req, Unwrap(poller.cur), payload)
       IN  poller' =
             [pc |-> "idle",
              held |-> Some([method_uuid |-> r.method_uuid,
                             data_uuid |-> r.data_uuid,
                             payload |-> IF r.kind = "full" THEN Unwrap(r.payload)
                                         ELSE Unwrap(poller.held).payload,
                             stamp |-> Unwrap(poller.cur),
                             at |-> WriterAt]),
              req |-> NoPrior, cur |-> None, at_load |-> None,
              resp |-> Some(r), scen |-> ScenarioStep]
    /\ UNCHANGED <<payload, writer, svars>>

NonPoll == <<vars, tvars, evars, hvars, lvars>>

PollNext ==
    \/ Mutate /\ UNCHANGED NonPoll
    \/ WriterIncrement /\ UNCHANGED NonPoll
    \/ \E kind \in RequestKinds : Load(kind) /\ UNCHANGED NonPoll
    \/ Respond /\ UNCHANGED NonPoll

PollStart ==
    /\ PollInit /\ RegistryUnused /\ ThreadsUnused /\ EncodeUnused
    /\ HistoryUnused /\ LockUnused

\* One category, its writer and a poller.
SpecPoll == PollStart /\ [][PollNext]_allvars

\* The poller re-polls with the stamp of its last response (its first poll
\* carries none).
Repoll == Load(IF poller.held = None THEN "none" ELSE "held")

ConvergeNext ==
    \/ Mutate /\ UNCHANGED NonPoll
    \/ WriterIncrement /\ UNCHANGED NonPoll
    \/ Repoll /\ UNCHANGED NonPoll
    \/ Respond /\ UNCHANGED NonPoll

\* The tasks are scheduled fairly: the writer's increment follows its
\* mutation, the poller keeps polling and the handler answers. The writer is
\* free to stop mutating.
ConvergeFairness ==
    /\ WF_allvars(WriterIncrement /\ UNCHANGED NonPoll)
    /\ WF_allvars(Repoll /\ UNCHANGED NonPoll)
    /\ WF_allvars(Respond /\ UNCHANGED NonPoll)

\* One category, its writer and a poller that keeps re-polling.
SpecConverge == PollStart /\ [][ConvergeNext]_allvars /\ ConvergeFairness

----------------------------------------------------------------------------
\* A stamp that is only read and incremented, with the pairs it has held.

IssuedInit ==
    /\ StampInit
    /\ issued = {UuidGet(Stamp)}
    /\ completed = UuidGet(Stamp)

\* increment(); the pair it leaves is added to the pairs held.
IssuedIncrement ==
    /\ Cardinality(issued) <= MaxIncrements
    /\ \E new_data_uuid \in NewV7 : StampIncrement(new_data_uuid)
    /\ issued' = issued \cup {<<method_uuid', data_uuid'>>}
    /\ completed' = <<method_uuid', data_uuid'>>

\* get()
IssuedGet == StampGet /\ UNCHANGED hvars

NonIssued == <<vars, tvars, evars, pvars, lvars>>

IssuedNext ==
    \/ IssuedIncrement /\ UNCHANGED NonIssued
    \/ IssuedGet /\ UNCHANGED NonIssued

IssuedStart ==
    /\ IssuedInit /\ RegistryUnused /\ ThreadsUnused /\ EncodeUnused /\ PollUnused
    /\ LockUnused

\* One stamp, read and incremented by its owner.
SpecIssued == IssuedStart /\ [][IssuedNext]_allvars

----------------------------------------------------------------------------
\* The stamp behind its mutex (Arc<tokio::sync::Mutex<UuidST>>, as in the
\* tests and the module's header): every task locks, calls get, set or
\* increment, and drops the guard. set and increment assign method_uuid and
\* data_uuid one after the other; the stamp between the two assignments is
\* the state the lock is there to hide. Of the stamp's history only
\* `completed` is kept here.

\* Variant of Unlocked: lock() does not wait for the guard to be dropped.
NeverLocked == TRUE

\* lock().await returns once no guard is held.
Unlocked == locked_by = 0

MutexInit ==
    /\ StampInit
    /\ advancing = FALSE
    /\ locked_by = 0
    /\ initial_method_uuid = method_uuid
    /\ task = [t \in Tasks |-> [pc |-> "lock", arg |-> 0]]
    /\ issued = {}
    /\ completed = UuidGet(Stamp)

\* mt_safe_uuid.lock().await
MutexLock(t) ==
    /\ task[t].pc = "lock" /\ Unlocked
    /\ locked_by' = t
    /\ task' = [task EXCEPT ![t].pc = "locked"]
    /\ UNCHANGED <<initial_method_uuid, advancing, svars, hvars>>

\* locked_uuid.get(), then the guard is dropped.
MutexGet(t) ==
    /\ task[t].pc = "locked" /\ locked_by = t
    /\ StampGet
    /\ task' = [task EXCEPT ![t].pc = "lock"]
    /\ locked_by' = 0
    /\ UNCHANGED <<initial_method_uuid, advancing, hvars>>

\* locked_uuid.increment() up to line 39: new_v7, the test and, in its
\* branch, the assignment of method_uuid. data_uuid is not yet assigned.
MutexIncrementBegin(t, new_data_uuid) ==
    /\ task[t].pc = "locked" /\ locked_by = t
    /\ Regressed(Stamp, new_data_uuid) => NewV4 # {}
    /\ \E new_method_uuid \in (IF NewV4 # {} THEN NewV4 ELSE InstanceIds) :
         LET after == UuidIncrement(Stamp, new_data_uuid, new_method_uuid)
         IN  /\ method_uuid' = after.method_uuid
             /\ minted' = minted \cup {after.method_uuid}
             /\ task' = [task EXCEPT ![t].pc = "increment_40",
                                     ![t].arg = after.data_uuid]
             /\ ucall' = [op |-> "increment", arg |-> new_data_uuid,
                          ret |-> IF after.method_uuid # method_uuid
                                  THEN Some(after.method_uuid) ELSE None]
    /\ clock' = new_data_uuid
    /\ UNCHANGED <<data_uuid, locked_by, initial_method_uuid, advancing, hvars>>

\* locked_uuid.set(&other) up to line 30: method_uuid is assigned.
MutexSetBegin(t, other) ==
    /\ task[t].pc = "locked" /\ locked_by = t
    /\ method_uuid' = UuidSet(Stamp, other).method_uuid
    /\ minted' = minted \cup {other.method_uuid}
    /\ task' = [task EXCEPT ![t].pc = "set_31",
                            ![t].arg = UuidSet(Stamp, other).data_uuid]
    /\ ucall' = [op |-> "set", arg |-> other, ret |-> None]
    /\ UNCHANGED <<data_uuid, clock, locked_by, initial_method_uuid, advancing, hvars>>

\* Line 40 of increment or line 31 of set: data_uuid is assigned, the call
\* returns and the guard is dropped.
MutexAssignData(t) ==
    /\ task[t].pc \in {"increment_40", "set_31"} /\ locked_by = t
    /\ data_uuid' = task[t].arg
    /\ completed' = <<method_uuid, task[t].arg>>
    /\ UNCHANGED issued
    /\ task' = [task EXCEPT ![t].pc = "lock", ![t].arg = 0]
    /\ locked_by' = 0
    /\ UNCHANGED <<method_uuid, clock, minted, ucall, initial_method_uuid, advancing>>

NonMutex == <<vars, evars, pvars, lvars>>

MutexNext ==
    \/ \E t \in Tasks : MutexLock(t) /\ UNCHANGED NonMutex
    \/ \E t \in Tasks : MutexGet(t) /\ UNCHANGED NonMutex
    \/ \E t \in Tasks, new_data_uuid \in NewV7 :
          MutexIncrementBegin(t, new_data_uuid) /\ UNCHANGED NonMutex
    \/ \E t \in Tasks, other \in Stamps : MutexSetBegin(t, other) /\ UNCHANGED NonMutex
    \/ \E t \in Tasks : MutexAssignData(t) /\ UNCHANGED NonMutex

MutexStart ==
    /\ MutexInit /\ RegistryUnused /\ EncodeUnused /\ PollUnused
    /\ LockUnused

\* The stamp behind its mutex, the calls in their steps.
SpecMutex == MutexStart /\ [][MutexNext]_allvars

----------------------------------------------------------------------------
\* The registry behind a reader-writer lock (spec 5): push and remove run
\* under the write guard, len / get / iteration under a read guard. push and
\* remove are modelled in two steps, around the state in which some_len and
\* the cells disagree. A panic under the write guard ends the run, as in the
\* registry's own specification.

Readers == 1..NumReaders

WriterIdle == [at |-> "idle", arg |-> None, taken |-> None]

RwInit ==
    /\ Init
    /\ rwlock = [writer |-> FALSE, readers |-> 0]
    /\ wpc = WriterIdle

\* write().await returns once no guard at all is held; read().await once no
\* write guard is held.
CanWrite == ~rwlock.writer /\ rwlock.readers = 0
CanRead == ~rwlock.writer

\* push up to line 53, under a new write guard: self.some_len += 1.
PushBegin(v) ==
    /\ CanWrite /\ status = "running"
    /\ LET inc == PushLen(some_len, overflow_checks)
       IN  IF inc.panic
           THEN /\ status' = "panicked"
                /\ call' = [op |-> "push", arg |-> v, ret |-> None]
                /\ UNCHANGED <<data, some_len, rwlock, wpc>>
           ELSE /\ some_len' = inc.val
                /\ rwlock' = [rwlock EXCEPT !.writer = TRUE]
                /\ wpc' = [at |-> "push_54", arg |-> Some(v), taken |-> None]
                /\ UNCHANGED <<data, status, call>>
    /\ UNCHANGED overflow_checks

\* A push of the writer, outside its loop.
WritePush(v) ==
    /\ j \in {0, FillCount}
    /\ PushTarget(data) < MaxSlots \/ Len(data) >= FillCount
    /\ PushBegin(v)
    /\ UNCHANGED j

\* A push of the writer's loop on the new registry:
\* for j in 0..FillCount { v1.push(TS::new(j)); }
WritePushLoop ==
    /\ j < FillCount
    /\ j = 0 => data = <<>> /\ some_len = 0
    /\ PushBegin(j)
    /\ j' = j + 1

\* push from line 54: the element is stored (or the conversion of its index
\* panics), the call returns and the write guard is dropped.
PushEnd ==
    /\ wpc.at = "push_54"
    /\ LET r == PushOp(data, 0, FALSE, NewTS(Unwrap(wpc.arg)))
       IN  /\ data' = r.data
           /\ status' = IF r.panic THEN "panicked" ELSE "running"
           /\ call' = [op |-> "push", arg |-> Unwrap(wpc.arg), ret |-> r.ret]
    /\ rwlock' = [rwlock EXCEPT !.writer = FALSE]
    /\ wpc' = WriterIdle
    /\ UNCHANGED <<some_len, overflow_checks, j>>

\* remove up to line 91, under a new write guard: an index out of range
\* returns at once; otherwise the cell's content is taken.
RemoveBegin(i) ==
    /\ CanWrite /\ status = "running" /\ j \in {0, FillCount}
    /\ IF VecGet(data, i) = None
       THEN /\ call' = [op |-> "remove", arg |-> i, ret |-> None]
            /\ UNCHANGED <<data, rwlock, wpc>>
       ELSE /\ data' = TakeCell(data, i)
            /\ rwlock' = [rwlock EXCEPT !.writer = TRUE]
            /\ wpc' = [at |-> "remove_92", arg |-> Some(i), taken |-> data[i + 1]]
            /\ UNCHANGED call
    /\ UNCHANGED <<some_len, overflow_checks, status, j>>

\* remove from line 92: the tail is trimmed, some_len decremented when an
\* element was taken, the call returns and the write guard is dropped.
RemoveEnd ==
    /\ wpc.at = "remove_92"
    /\ LET dec == RemoveLen(some_len, overflow_checks, wpc.taken)
       IN  /\ data' = TrimTail(data)
           /\ some_len' = IF dec.panic THEN some_len ELSE dec.val
           /\ status' = IF dec.panic THEN "panicked" ELSE "running"
           /\ call' = [op |-> "remove", arg |-> Unwrap(wpc.arg),
                       ret |-> IF IsSome(wpc.taken) /\ ~dec.panic
                               THEN Some(SetIdx(Unwrap(wpc.taken), None)) ELSE None]
    /\ rwlock' = [rwlock EXCEPT !.writer = FALSE]
    /\ wpc' = WriterIdle
    /\ UNCHANGED <<overflow_checks, j>>

\* A reader takes a read guard and calls len().
ReadLock ==
    /\ CanRead /\ status = "running" /\ rwlock.readers < NumReaders
    /\ rwlock' = [rwlock EXCEPT !.readers = rwlock.readers + 1]
    /\ call' = [op |-> "len", arg |-> 0, ret |-> Some(LenOp(some_len))]
    /\ UNCHANGED <<data, some_len, overflow_checks, status, j, wpc>>

\* A reader drops its read guard.
ReadUnlock ==
    /\ rwlock.readers > 0
    /\ rwlock' = [rwlock EXCEPT !.readers = rwlock.readers - 1]
    /\ UNCHANGED <<vars, wpc>>

NonRw == <<svars, tvars, evars, pvars, hvars>>

RwNext ==
    \/ \E v \in Values : WritePush(v) /\ UNCHANGED NonRw
    \/ WritePushLoop /\ UNCHANGED NonRw
    \/ PushEnd /\ UNCHANGED NonRw
    \/ \E i \in Indices : RemoveBegin(i) /\ UNCHANGED NonRw
    \/ RemoveEnd /\ UNCHANGED NonRw
    \/ ReadLock /\ UNCHANGED NonRw
    \/ ReadUnlock /\ UNCHANGED NonRw

RwStart ==
    /\ RwInit /\ StampUnused /\ ThreadsUnused /\ EncodeUnused /\ PollUnused
    /\ HistoryUnused

\* The registry, its writer and its readers.
SpecRwLock == RwStart /\ [][RwNext]_allvars

----------------------------------------------------------------------------
\* Vocabulary of the properties.

\* The indices of the occupied cells, and their number.
LiveIndices(d) == {i \in 0..(Len(d) - 1) : d[i + 1] # None}
FreeIndices(d) == {i \in 0..(Len(d) - 1) : d[i + 1] = None}
LiveCount(d) == Cardinality(LiveIndices(d))
Lowest(S) == CHOOSE i \in S : \A other \in S : i <= other
\* The element in cell i.
ElementAt(d, i) == Unwrap(d[i + 1])

\* The step is a call of `op` that returned (did not panic).
Returned(op) == call'.op = op /\ status' # "panicked"

----------------------------------------------------------------------------
\* C1: after any sequence of push and remove calls, len() is the number of
\* occupied cells of the backing sequence.
C1_LenIsLiveCount ==
    status = "running" => LenOp(some_len) = LiveCount(data)

\* C2: a push that returns reuses the lowest-indexed free cell if there is one,
\* and appends a cell only when none is free; a push that follows the removal
\* of a live element which left no other cell free returns the removed index.
C2_PushReusesLowestFree ==
    [][Returned("push") =>
        /\ IF FreeIndices(data) # {}
           THEN /\ call'.ret = Some(Lowest(FreeIndices(data)))
                /\ Len(data') = Len(data)
           ELSE /\ call'.ret = Some(Len(data))
                /\ Len(data') = Len(data) + 1
        /\ ( /\ call.op = "remove" /\ IsSome(call.ret)
             /\ \/ FreeIndices(data) = {call.arg}
                \/ FreeIndices(data) = {} /\ Len(data) = call.arg )
           => call'.ret = Some(call.arg)
    ]_vars

\* C2's case: A, B, C pushed, 1 removed, D pushed: D has index 1 and len() is 3.
C2_Witness ==
    /\ call.op = "push" /\ call.ret = Some(1) /\ j = 0
    /\ Len(data) = 3 /\ LenOp(some_len) = 3

\* C3: when remove(i) returns an element, get(i) and get_mut(i) are then
\* absent, the element's idx() is absent and len() is one less than before.
C3_RemoveFreesIndex ==
    [][(Returned("remove") /\ IsSome(call'.ret)) =>
        /\ GetOp(data', call'.arg) = None
        /\ GetMutOp(data', call'.arg) = None
        /\ Idx(Unwrap(call'.ret)) = None
        /\ LenOp(some_len') = LenOp(some_len) - 1
    ]_vars

\* C4: remove(i) of an out-of-range index or of an empty cell returns absent,
\* leaves data and len() as they were and does not panic.
C4_RemoveAbsentIsNoOp ==
    [][(call'.op = "remove" /\ call'.arg \notin LiveIndices(data)) =>
        /\ call'.ret = None
        /\ data' = data
        /\ LenOp(some_len') = LenOp(some_len)
        /\ status' = "running"
    ]_vars

\* C4's case: remove of an in-range cell that is already empty has returned absent.
C4_Witness ==
    /\ call.op = "remove" /\ call.ret = None
    /\ call.arg \in FreeIndices(data)
    /\ status = "running"

\* C5: a push that cannot be given an index ends with an error the caller
\* can handle: no push panics, and none leaves len() wrapped around.
C5_PushReportsCapacity ==
    call.op = "push" => (status = "running" /\ LenOp(some_len) = LiveCount(data))

\* C6: every live element's idx() is the position of its cell; push sets it to
\* the index it returns and no call changes the idx of an element that stays.
C6_IdxIsPosition ==
    /\ [](\A i \in LiveIndices(data) : Idx(ElementAt(data, i)) = Some(i))
    /\ [][/\ (Returned("push") /\ IsSome(call'.ret)) =>
                Some(Idx(ElementAt(data', Unwrap(call'.ret)))) = Some(call'.ret)
          /\ \A i \in LiveIndices(data) \cap LiveIndices(data') :
                Idx(ElementAt(data', i)) = Idx(ElementAt(data, i))
       ]_vars

\* C6's case: a push has recycled cell 1 and the element there reports index 1.
C6_Witness ==
    /\ call.op = "push" /\ call.ret = Some(1)
    /\ Len(data) > 2
    /\ Idx(ElementAt(data, 1)) = Some(1)

\* C7: get(i) of a live element keeps returning that element across every call
\* but remove(i), and push never returns the index of an occupied cell.
C7_StableIndex ==
    [][/\ \A i \in LiveIndices(data) :
            (call'.op = "remove" /\ call'.arg = i) \/ GetOp(data', i) = GetOp(data, i)
       /\ (Returned("push") /\ IsSome(call'.ret)) =>
            Unwrap(call'.ret) \notin LiveIndices(data)
    ]_vars

\* C7's case: cell 0 was removed and pushed again while cell 1 stayed occupied.
C7_Witness ==
    /\ call.op = "push" /\ call.ret = Some(0)
    /\ 1 \in LiveIndices(data)

\* C8: the backing sequence never ends with an empty cell: its length is one
\* plus the highest live index, 0 when no element is live.
C8_NoTrailingEmpty ==
    /\ Len(data) > 0 => data[Len(data)] # None
    /\ LiveIndices(data) = {} => Len(data) = 0

\* C8's case: a remove of the last cell has popped more than that cell.
C8_Witness ==
    /\ call.op = "remove" /\ IsSome(call.ret)
    /\ 0 < Len(data) /\ Len(data) < call.arg

\* The items are the pairs (i, element) of the live cells of d, ascending.
YieldsLive(items, d) ==
    /\ {items[k][1] : k \in 1..Len(items)} = LiveIndices(d)
    /\ \A k \in 1..Len(items) : items[k][2] = ElementAt(d, items[k][1])
    /\ \A k \in 1..(Len(items) - 1) : items[k][1] < items[k + 1][1]

\* C9: iter, iter_mut and into_iter yield the pairs (i, element) of the live
\* cells, each once, in ascending index order, and as many as len().
C9_IterationYieldsLive ==
    (call.op \in {"iter", "iter_mut", "into_iter"}) =>
        /\ status # "panicked"
        /\ YieldsLive(call.ret, data)
        /\ Len(call.ret) = LenOp(some_len)

\* C10: get(i) and get_mut(i) return the element of cell i when it is in range
\* and occupied, absent otherwise, without panicking; get changes no state.
C10_GetReturnsCell ==
    [][(call'.op \in {"get", "get_mut"}) =>
        /\ call'.ret = IF call'.arg \in LiveIndices(data)
                       THEN Some(ElementAt(data, call'.arg))
                       ELSE None
        /\ status' = "running"
        /\ data' = data /\ some_len' = some_len
    ]_vars

\* C10's case: get of an in-range empty cell has returned absent.
C10_Witness ==
    /\ call.op = "get" /\ call.ret = None
    /\ call.arg \in FreeIndices(data)

\* C19: the backing sequence never holds more than 255 cells, len() is at
\* most 255 and is the live count: 256 elements are never live at once and
\* len() never wraps around to a smaller value.
C19_AtMost255Slots ==
    /\ Len(data) <= ManagedVecUSizeMax
    /\ LiveCount(data) <= ManagedVecUSizeMax
    /\ LenOp(some_len) <= ManagedVecUSizeMax
    /\ (call.op = "push" /\ status = "running") => LenOp(some_len) >= 1

----------------------------------------------------------------------------
\* Vocabulary of the stamp's properties.

\* The step is a call of increment, whose new_v7 produced ucall'.arg.
IsIncrement == ucall'.op = "increment"
\* The stamp after the step.
StampAfter == [method_uuid |-> method_uuid', data_uuid |-> data_uuid']

\* C12: an increment whose generated sequence id is not above the stored one
\* leaves a different instance id and stores the generated id; the increments
\* that follow an increment, with an advancing clock, keep the instance id
\* and store strictly greater sequence ids.
C12_RegressionMintsInstance ==
    [][IsIncrement =>
        /\ ucall'.arg <= data_uuid =>
              /\ method_uuid' # method_uuid
              /\ data_uuid' = ucall'.arg
        /\ (ucall.op = "increment" /\ ucall'.arg > clock) =>
              /\ method_uuid' = method_uuid
              /\ data_uuid' > data_uuid
    ]_svars

\* C12's case: an increment has just found its id not above the stored one.
C12_Witness ==
    /\ ucall.op = "increment" /\ IsSome(ucall.ret)
    /\ method_uuid = Unwrap(ucall.ret)
    /\ data_uuid = ucall.arg

\* C17 as stated: after every increment the stamp is greater than before.
C17_EveryIncrementGreater ==
    [][IsIncrement => UuidLess(Stamp, StampAfter)]_svars

\* C17: after an increment whose generated sequence id is above the stored one
\* the stamp compares strictly greater than before it, under the derived order
\* (instance id first, then sequence id); a clone compares equal to its stamp.
C17_AdvancingIncrementGreater ==
    [][/\ (IsIncrement /\ ucall'.arg > data_uuid) =>
            /\ UuidLess(Stamp, StampAfter)
            /\ ~UuidLess(StampAfter, Stamp)
            /\ ~UuidEq(Stamp, StampAfter)
       /\ ucall'.op = "clone" =>
            /\ UuidEq(ucall'.ret, StampAfter)
            /\ ~UuidLess(ucall'.ret, StampAfter)
            /\ ~UuidLess(StampAfter, ucall'.ret)
    ]_svars

\* C17's case: an increment has stored a greater sequence id, same instance.
C17_Witness ==
    /\ ucall.op = "increment" /\ ucall.ret = None
    /\ data_uuid = ucall.arg /\ data_uuid > 0

\* C18 as stated: the instance id changes only in an increment that finds its
\* generated id not above the stored one.
C18_OnlyRegressionChangesInstance ==
    [][method_uuid' # method_uuid => (IsIncrement /\ ucall'.arg <= data_uuid)]_svars

\* C18: the instance id changes only in an increment that finds its generated
\* id not above the stored one, or in a set(other) that copies other's
\* different instance id; get, clone and the other increments leave it.
C18_InstanceChangesOnlyByRegressionOrSet ==
    [][method_uuid' # method_uuid =>
        \/ IsIncrement /\ ucall'.arg <= data_uuid
        \/ /\ ucall'.op = "set"
           /\ ucall'.arg.method_uuid # method_uuid
           /\ method_uuid' = ucall'.arg.method_uuid
    ]_svars

\* C18's case: an increment with an advancing id after a set: same instance id.
C18_Witness ==
    /\ ucall.op = "increment" /\ ucall.ret = None
    /\ Cardinality(minted) > 1

\* C16: the text form of an id has a fixed length (26 symbols for the 16
\* bytes) and keeps the order: encode(a) < encode(b) as strings exactly when
\* a < b as values, and encode(a) = encode(b) exactly when a = b.
C16_EncodingKeepsOrder ==
    text_a # None =>
        LET ea == Unwrap(text_a)
            eb == Unwrap(text_b)
        IN  /\ Len(ea) = 26 /\ Len(eb) = 26
            /\ LexLess(ea, eb) <=> LexLess(uuid_a, uuid_b)
            /\ LexLess(eb, ea) <=> LexLess(uuid_b, uuid_a)
            /\ (ea = eb) <=> (uuid_a = uuid_b)

\* Two encoded ids that differ first in byte 2 one way and in the last byte
\* the other way.
C16_Witness ==
    /\ text_a # None
    /\ uuid_a[2] < uuid_b[2] /\ uuid_a[UuidBytesLen] > uuid_b[UuidBytesLen]
    /\ LexLess(Unwrap(text_a), Unwrap(text_b))

\* A task calls increment() in this step.
TaskIncrements == \E t \in Tasks : task[t].pc = "increment" /\ task'[t].pc = "get"

\* C11: with a source of strictly advancing sequence ids, every increment()
\* stores a sequence id greater than the one before and the instance id
\* stays the initial one, however many increments there are.
C11_AdvancingKeepsInstance ==
    /\ [](advancing => method_uuid = initial_method_uuid)
    /\ [][(advancing /\ TaskIncrements) =>
            (data_uuid' > data_uuid /\ method_uuid' = method_uuid)]_allvars

\* At least two increments in a row on an advancing source.
C11_Witness ==
    /\ advancing /\ ucall.op = "increment"
    /\ method_uuid = initial_method_uuid
    /\ \E t1 \in Tasks, t2 \in Tasks :
          /\ task[t1].prev_data_uuid < task[t2].prev_data_uuid
          /\ task[t2].prev_data_uuid < data_uuid

\* C15: with an advancing source, what a task gets after its increment() is
\* a sequence id greater than the one of its previous iteration and the
\* initial instance id, in every interleaving of the tasks; no assertion
\* fails.
C15_TasksSeeIncreasingIds ==
    advancing =>
        \A t \in Tasks :
            /\ task[t].pc # "panicked"
            /\ task[t].pc = "assert" =>
                  /\ task[t].seen[2] > task[t].prev_data_uuid
                  /\ task[t].seen[1] = initial_method_uuid

\* Task 1 gets an id after task 2 incremented since task 1's last iteration.
C15_Witness ==
    /\ advancing /\ task[1].pc = "assert"
    /\ task[1].prev_data_uuid < task[2].prev_data_uuid
    /\ task[2].prev_data_uuid < task[1].seen[2]
    /\ task[1].seen[1] = initial_method_uuid

\* The handler loads the stamp in this step; it answers in this step.
Loads == poller.pc = "idle" /\ poller'.pc = "loaded"
Responds == poller.pc = "loaded" /\ poller'.pc = "idle"

\* The response's two strings are the text of the stamp s.
CarriesStamp(r, s) ==
    /\ r.method_uuid = GetMethodUuid(s)
    /\ r.data_uuid = GetDataUuid(s)

\* C13: the handler answers 'unchanged' exactly when the request carries a
\* prior stamp whose instance id and sequence id both equal those of the
\* stamp the handler loaded; in every other case it answers with the full
\* payload; every response carries the stamp the handler loaded, which is
\* the stamp at the time of the load.
C13_DecisionRule ==
    [][ /\ Loads => poller'.cur = Some(<<method_uuid, data_uuid>>)
        /\ Responds =>
             LET r == Unwrap(poller'.resp)
                 cur == Unwrap(poller.cur)
             IN  /\ r.kind \in {"full", "unchanged"}
                 /\ r.kind = "unchanged" <=>
                       /\ PriorSupplied(poller.req)
                       /\ Unwrap(poller.held).stamp[1] = cur[1]
                       /\ Unwrap(poller.held).stamp[2] = cur[2]
                 /\ r.kind = "full" <=> r.payload = Some(payload)
                 /\ r.kind = "unchanged" <=> r.payload = None
                 /\ CarriesStamp(r, [method_uuid |-> cur[1], data_uuid |-> cur[2]])
      ]_allvars

\* An 'unchanged' response to a request with the current stamp.
C13_Witness ==
    /\ poller.resp # None /\ Unwrap(poller.resp).kind = "unchanged"
    /\ Unwrap(poller.held).stamp = <<method_uuid, data_uuid>>

\* C14: the poll trace. A poll without prior stamp gets the full payload and
\* the current stamp S0; once the writer has mutated and incremented, a poll
\* with S0 gets the full payload and the current stamp S1, which is not S0;
\* a further poll with S1, no mutation in between, gets 'unchanged' and S1.
C14_PollTrace ==
    [][Responds =>
         LET r == Unwrap(poller'.resp)
             s == poller'.scen
             req == poller.req
         IN  /\ s \in {1, 2} =>
                   /\ r.kind = "full" /\ r.payload = Some(payload)
                   /\ CarriesStamp(r, Stamp)
             /\ s = 2 =>
                   \/ r.method_uuid # Unwrap(req.method_uuid)
                   \/ r.data_uuid # Unwrap(req.data_uuid)
             /\ s = 3 =>
                   /\ r.kind = "unchanged" /\ r.payload = None
                   /\ CarriesStamp(r, Stamp)
                   /\ r.method_uuid = Unwrap(req.method_uuid)
                   /\ r.data_uuid = Unwrap(req.data_uuid)
      ]_allvars

\* The third poll of the trace has been answered.
C14_Witness ==
    /\ poller.scen = 3
    /\ Unwrap(poller.resp).kind = "unchanged"
    /\ Unwrap(poller.held).payload = payload /\ payload >= 1

\* C20: whenever the handler answers 'unchanged', the category's data at
\* that moment is the payload the poller received with the stamp it
\* supplied.
C20_NoStaleUnchanged ==
    [][(Responds /\ Unwrap(poller'.resp).kind = "unchanged") =>
         payload = Unwrap(poller.held).payload]_allvars

\* C22: every increment(), in the advancing branch and in the regression
\* branch alike, leaves a pair (instance id, sequence id) the stamp has never
\* held before (new_v4 never repeats an id), so no stamp issued earlier
\* equals the stamp after a later increment.
C22_IncrementNeverRepeats ==
    [][ucall'.op = "increment" =>
         /\ <<method_uuid', data_uuid'>> \notin issued
         /\ \A old \in issued :
               ~UuidEq([method_uuid |-> old[1], data_uuid |-> old[2]], StampAfter)
      ]_allvars

\* A regression increment and later an advancing one: three pairs held, under
\* two instance ids.
C22_Witness ==
    /\ Cardinality(issued) >= 3
    /\ ucall.op = "increment" /\ ucall.ret = None
    /\ \E old \in issued : old[1] # method_uuid

\* The poller holds the category's data and its last response was 'unchanged'.
Converged ==
    /\ poller.held # None /\ poller.resp # None
    /\ Unwrap(poller.held).payload = payload
    /\ Unwrap(poller.resp).kind = "unchanged"

\* C21: once the writer has stopped mutating (its last mutation followed by
\* its increment), the poller that re-polls with the stamp of its last
\* response eventually holds the writer's final data and from then on gets
\* only 'unchanged' responses, under fair scheduling, also when an increment
\* regressed and changed the instance id.
C21_EventuallyConverges == <>[]Converged

\* The poller has converged after a regression changed the instance id.
C21_Witness ==
    /\ Converged
    /\ payload >= 1 /\ writer = "idle"
    /\ Cardinality(minted) >= 2

\* A task's get() returns in this step.
MutexGets == \E t \in Tasks : task[t].pc = "locked" /\ task'[t].pc = "lock"

\* C23: through the mutex, get() returns the pair the stamp held when its
\* last new / set / increment returned: never the new instance id of a
\* regression increment with the sequence id from before it, nor one field
\* of set(other) without the other.
C23_NoTornPair ==
    [][MutexGets =>
         /\ ucall'.op = "get"
         /\ ucall'.ret = completed
      ]_allvars

\* A get() after a set or a regression increment that gave the stamp another
\* instance id: the pair that call left.
C23_Witness ==
    /\ ucall.op = "get"
    /\ ucall.ret = completed
    /\ ucall.ret[1] # initial_method_uuid
    /\ Cardinality(minted) = 2

\* C24: whatever a reader sees under its read guard, len() is the number of
\* live elements and every live element reports its own cell as idx(); the
\* writer is then neither between push's increment of the count and its
\* store, nor between remove's emptying of the cell and its decrement.
C24_ReadersSeeConsistent ==
    rwlock.readers > 0 =>
        /\ wpc.at = "idle"
        /\ LenOp(some_len) = LiveCount(data)
        /\ \A i \in LiveIndices(data) : Idx(ElementAt(data, i)) = Some(i)

====
